---------------------------- MODULE Spec2Model ----------------------------
(***************************************************************************)
(* A model of mgi, a minimal git implementation: the content-addressed     *)
(* object store, the binary staging index and the tree/commit writer.      *)
(*                                                                         *)
(* Bytes are naturals, byte strings are sequences of them.  Text is the    *)
(* sequence of its ASCII codes ("a" is <<97>>, "/" is 47, "." is 46).      *)
(* The repository holds two generations of the code: the root package      *)
(* (impl = "mgi": src/index.go, src/mgi.go, the second half of             *)
(* src/unnamed/part_003) and the older package fs (impl = "fs":            *)
(* src/unnamed/part_002, src/fs/mgi.go, the first half of part_003).       *)
(***************************************************************************)
EXTENDS Integers, Sequences, FiniteSets, TLC

(***************************************************************************)
(* Bounds of the model.                                                    *)
(***************************************************************************)
\* operations on one trace
MaxSteps == 3
\* latest value of the wall clock (seconds)
MaxClock == 1
\* calls on one trace of the index service on its own
MaxIxSteps == 4
\* calls on one trace of the object store on its own
MaxObjSteps == 3
\* the last offset of the index file at which a byte is changed
MaxIndexFile == 300

\* the longest path of an entry that is serialized on its own
MaxPathLen == 64

(***************************************************************************)
(* Program constants.                                                      *)
(***************************************************************************)
\* index.go:147  the fixed part of an index entry
FixedLen == 62
\* index.go:192  the length of a SHA-1 digest
DigestLen == 20
\* index.go:206  the length of the index header
HeaderLen == 12
\* index.go:70   0100644
ModeRegular == 33188
\* index.go:68   0100755
ModeExec == 33261
\* mgi.go:172    040000
ModeDir == 16384

(***************************************************************************)
(* Byte strings.                                                           *)
(***************************************************************************)
Zeros(n) == [i \in 1..n |-> 0]

Min(a, b) == IF a < b THEN a ELSE b

\* data[from:to] of Go, 0-based, to exclusive
Slice(data, from, to) == SubSeq(data, from + 1, to)

\* bytes.IndexByte(data[from:], c): the 0-based offset from `from`, or -1
IndexByte(data, from, c) ==
    LET hits == {k \in 0..(Len(data) - from - 1) : data[from + k + 1] = c}
    IN  IF hits = {} THEN 0 - 1 ELSE CHOOSE k \in hits : \A j \in hits : k <= j

HasPrefix(s, p) == Len(p) <= Len(s) /\ SubSeq(s, 1, Len(p)) = p

HasSuffix(s, p) == Len(p) <= Len(s) /\ SubSeq(s, Len(s) - Len(p) + 1, Len(s)) = p

TrimPrefix(s, p) == IF HasPrefix(s, p) THEN SubSeq(s, Len(p) + 1, Len(s)) ELSE s

\* byte-wise order of Go strings: a < b
RECURSIVE StrLess(_, _)
StrLess(a, b) ==
    IF b = <<>> THEN FALSE
    ELSE IF a = <<>> THEN TRUE
    ELSE IF Head(a) # Head(b) THEN Head(a) < Head(b)
    ELSE StrLess(Tail(a), Tail(b))

\* binary.BigEndian
BE32(n) == << (n \div 16777216) % 256, (n \div 65536) % 256, (n \div 256) % 256, n % 256 >>

BE16(n) == << (n \div 256) % 256, n % 256 >>

Uint32(v) == v[1] * 16777216 + v[2] * 65536 + v[3] * 256 + v[4]

Uint16(v) == v[1] * 256 + v[2]

\* fmt.Sprintf("%d", n), n >= 0
RECURSIVE Dec(_)
Dec(n) == IF n < 10 THEN <<48 + n>> ELSE Dec(n \div 10) \o <<48 + (n % 10)>>

\* fmt.Sprintf("%o", n), n >= 0
RECURSIVE Oct(_)
Oct(n) == IF n < 8 THEN <<48 + n>> ELSE Oct(n \div 8) \o <<48 + (n % 8)>>

IsDigits(s) == s # <<>> /\ \A i \in 1..Len(s) : s[i] >= 48 /\ s[i] <= 57

\* strconv.Atoi on a string of digits
RECURSIVE AtoiAcc(_, _, _)
AtoiAcc(s, k, acc) ==
    IF k > Len(s) THEN acc ELSE AtoiAcc(s, k + 1, acc * 10 + (s[k] - 48))

Atoi(s) == AtoiAcc(s, 1, 0)

HexDigit(n) == IF n < 10 THEN 48 + n ELSE 87 + n

\* fmt.Sprintf("%x", bytes)
Hex(bs) ==
    [i \in 1..(2 * Len(bs)) |->
        IF i % 2 = 1 THEN HexDigit(bs[(i + 1) \div 2] \div 16)
        ELSE HexDigit(bs[i \div 2] % 16)]

(***************************************************************************)
(* SHA-1.  The digest is modelled by a 20-byte checksum of the same shape: *)
(* a function of every byte of the input whose first byte is the sum of    *)
(* the input (so that, as with SHA-1, changing one byte of the input       *)
(* changes the digest) and whose other bytes mix in a position-weighted    *)
(* sum of the input and its length.  Bytes of the model stay below 128.    *)
(***************************************************************************)
RECURSIVE sha1Sigma(_, _, _)
sha1Sigma(data, lo, hi) ==
    IF lo > hi THEN 0
    ELSE IF lo = hi THEN data[lo]
    ELSE (sha1Sigma(data, lo, (lo + hi) \div 2)
          + sha1Sigma(data, (lo + hi) \div 2 + 1, hi)) % 128

RECURSIVE sha1Poly(_, _, _)
sha1Poly(data, lo, hi) ==
    IF lo > hi THEN 7
    ELSE IF lo = hi THEN ((lo % 127) * (data[lo] + 1)) % 16381
    ELSE (sha1Poly(data, lo, (lo + hi) \div 2)
          + sha1Poly(data, (lo + hi) \div 2 + 1, hi)) % 16381

\* a digest that looks at the length of its input only
Mut_sha1Sum(data) == [i \in 1..DigestLen |-> (Len(data) + i) % 128]

sha1Sum(data) ==
    LET a == sha1Sigma(data, 1, Len(data))
        b == sha1Poly(data, 1, Len(data))
    IN  [i \in 1..DigestLen |->
            IF i = 1 THEN a
            ELSE ((b \div i) + i * a + Len(data)) % 128]

(***************************************************************************)
(* The index: src/index.go (impl "mgi") and src/unnamed/part_002 ("fs").   *)
(***************************************************************************)
\* "DIRC"
sigDIRC == <<68, 73, 82, 67>>

\* the Index that NewIndexService builds
NewIndexService ==
    [Signature |-> sigDIRC, Version |-> <<50>>, EntryCount |-> 0,
     Entries |-> <<>>, Hash |-> <<>>]

\* the nil *Index that Read returns beside an error
NilIndex ==
    [Signature |-> <<>>, Version |-> <<>>, EntryCount |-> 0 - 1,
     Entries |-> <<>>, Hash |-> <<>>]

\* the IndexEntry that Add builds from os.Stat's answer st
NewEntry(path, hash, st) ==
    [CTimeSecs |-> st.CtimSec, CTimeNanoSecs |-> st.CtimNsec,
     MTimeSecs |-> st.MtimSec, MTimeNanoSecs |-> st.MtimNsec,
     Dev |-> st.Dev, Ino |-> st.Ino,
     Mode |-> IF st.Exec THEN ModeExec ELSE ModeRegular,
     Uid |-> st.Uid, Gid |-> st.Gid, FileSize |-> st.Size,
     Hash |-> hash, Flags |-> Len(path) % 65536, Path |-> path]

\* IndexService.Add of the root package: replace the entries of that path,
\* or append
IndexService_Add(index, path, hash, st) ==
    LET entry == NewEntry(path, hash, st)
        replaced == \E ei \in 1..Len(index.Entries) : index.Entries[ei].Path = path
    IN  IF replaced
        THEN [index EXCEPT !.Entries =
                 [ei \in 1..Len(index.Entries) |->
                     IF index.Entries[ei].Path = path THEN entry
                     ELSE index.Entries[ei]]]
        ELSE [index EXCEPT !.Entries = Append(index.Entries, entry),
                           !.EntryCount = Len(index.Entries) + 1]

\* IndexService.Add of package fs: always append
fs_IndexService_Add(index, path, hash, st) ==
    [index EXCEPT !.Entries = Append(index.Entries, NewEntry(path, hash, st)),
                  !.EntryCount = Len(index.Entries) + 1]

\* sort.Slice(Entries, Path <): for the short lists of the model Go sorts by
\* insertion, which keeps equal paths in order
RECURSIVE InsertByPath(_, _)
InsertByPath(sorted, e) ==
    IF sorted = <<>> THEN <<e>>
    ELSE IF StrLess(e.Path, sorted[Len(sorted)].Path)
         THEN Append(InsertByPath(SubSeq(sorted, 1, Len(sorted) - 1), e), sorted[Len(sorted)])
         ELSE Append(sorted, e)

RECURSIVE SortByPath(_)
SortByPath(es) ==
    IF es = <<>> THEN <<>>
    ELSE InsertByPath(SortByPath(SubSeq(es, 1, Len(es) - 1)), es[Len(es)])

\* a length that counts the NUL before it rounds, as Read does
Mut_MarshalEntryLen(pathLen) == ((FixedLen + pathLen + 1 + 8) \div 8) * 8

\* the length Marshal pads an entry to
MarshalEntryLen(pathLen) == ((FixedLen + pathLen + 8) \div 8) * 8

\* one entry as Marshal serializes it
MarshalEntry(v) ==
    LET padded(b, length) == IF Len(b) < length THEN b \o Zeros(length - Len(b)) ELSE b
    IN  padded(BE32(v.CTimeSecs) \o BE32(v.CTimeNanoSecs) \o BE32(v.MTimeSecs)
               \o BE32(v.MTimeNanoSecs) \o BE32(v.Dev) \o BE32(v.Ino) \o BE32(v.Mode)
               \o BE32(v.Uid) \o BE32(v.Gid) \o BE32(v.FileSize) \o v.Hash
               \o BE16(v.Flags) \o v.Path \o <<0>>,
               MarshalEntryLen(Len(v.Path)))

RECURSIVE MarshalEntries(_)
MarshalEntries(es) ==
    IF es = <<>> THEN <<>> ELSE MarshalEntry(Head(es)) \o MarshalEntries(Tail(es))

\* IndexService.Marshal (and the body of fs Store): [err, data, index]; the
\* sort is done in place on the service's entries
Marshal(index) ==
    IF Len(index.Signature) # 4
    THEN [err |-> "signature must be 4 bytes long", data |-> <<>>, index |-> index]
    ELSE IF ~IsDigits(index.Version)
    THEN [err |-> "strconv.Atoi", data |-> <<>>, index |-> index]
    ELSE LET summed(sorted, mb) ==
                 [err |-> "", data |-> mb \o sha1Sum(mb),
                  index |-> [index EXCEPT !.Entries = sorted]]
             written(sorted) ==
                 summed(sorted, index.Signature \o BE32(Atoi(index.Version))
                                \o BE32(index.EntryCount) \o MarshalEntries(sorted))
         IN  written(SortByPath(index.Entries))

\* a file of the repository or of the working tree
NoFile == [exists |-> FALSE, data |-> <<>>]

File(data) == [exists |-> TRUE, data |-> data]

\* the fixed fields of the entry that starts at offset pos of area
DecodeFixed(area, pos, path) ==
    [CTimeSecs |-> Uint32(Slice(area, pos, pos + 4)),
     CTimeNanoSecs |-> Uint32(Slice(area, pos + 4, pos + 8)),
     MTimeSecs |-> Uint32(Slice(area, pos + 8, pos + 12)),
     MTimeNanoSecs |-> Uint32(Slice(area, pos + 12, pos + 16)),
     Dev |-> Uint32(Slice(area, pos + 16, pos + 20)),
     Ino |-> Uint32(Slice(area, pos + 20, pos + 24)),
     Mode |-> Uint32(Slice(area, pos + 24, pos + 28)),
     Uid |-> Uint32(Slice(area, pos + 28, pos + 32)),
     Gid |-> Uint32(Slice(area, pos + 32, pos + 36)),
     FileSize |-> Uint32(Slice(area, pos + 36, pos + 40)),
     Hash |-> Slice(area, pos + 40, pos + 60),
     Flags |-> Uint16(Slice(area, pos + 60, pos + 62)),
     Path |-> path]

\* the padding Read discards after an entry's path and its NUL
ReadPadding(pathLen) ==
    LET totalEntryLen == ((FixedLen + pathLen + 1 + 8) \div 8) * 8
    IN  totalEntryLen - (FixedLen + pathLen + 1)

\* the entry loop of IndexService.Read over the bufio.Reader of the entry
\* area: readNBytes fails when fewer than n bytes are left, ReadBytes when no
\* NUL is left, Discard skips what is there
RECURSIVE readEntries(_, _, _, _)
readEntries(area, pos, n, acc) ==
    IF n <= 0 THEN [err |-> "", entries |-> acc]
    ELSE IF Len(area) - pos < FixedLen THEN [err |-> "EOF", entries |-> <<>>]
    ELSE LET z == IndexByte(area, pos + FixedLen, 0)
         IN  IF z < 0 THEN [err |-> "EOF", entries |-> <<>>]
             ELSE LET path == Slice(area, pos + FixedLen, pos + FixedLen + z)
                      after == pos + FixedLen + z + 1 + ReadPadding(Len(path))
                  IN  readEntries(area, Min(after, Len(area)), n - 1,
                                  Append(acc, DecodeFixed(area, pos, path)))

\* the header fields Read writes into the service's index before it
\* validates anything
PrePopulate(index, data) ==
    [index EXCEPT !.Signature = Slice(data, 0, 4),
                  !.Version = Dec(Uint32(Slice(data, 4, 8))),
                  !.EntryCount = Uint32(Slice(data, 8, 12)),
                  !.Hash = Slice(data, Len(data) - DigestLen, Len(data))]

\* a Read that lets any trailing digest pass
Mut_DigestsMatch(hash, data) == TRUE

\* the trailing digest of the index file is the digest of what precedes it
DigestsMatch(hash, data) == hash = sha1Sum(Slice(data, 0, Len(data) - DigestLen))

\* IndexService.Read of the root package, on the service's index and the
\* index file: [result, err, index, ret] with result "ok", "error" or
\* "panic" (a slice out of range), index the service's index afterwards and
\* ret the *Index returned
IndexService_Read(index, file) ==
    IF ~file.exists
    THEN [result |-> "ok", err |-> "", index |-> index, ret |-> NewIndexService]
    ELSE LET looped(pre, r) ==
                 IF r.err # ""
                 THEN [result |-> "error", err |-> r.err, index |-> pre,
                       ret |-> NilIndex]
                 ELSE [result |-> "ok", err |-> "",
                       index |-> [pre EXCEPT !.Entries = r.entries],
                       ret |-> [pre EXCEPT !.Entries = r.entries]]
             header(data, pre) ==
                 IF pre.Version # <<50>>
                 THEN [result |-> "error", err |-> "unsupported version",
                       index |-> pre, ret |-> NilIndex]
                 ELSE IF ~DigestsMatch(pre.Hash, data)
                 THEN [result |-> "error", err |-> "digests don't match",
                       index |-> pre, ret |-> NilIndex]
                 ELSE IF Len(data) < HeaderLen + DigestLen
                 THEN [result |-> "panic", err |-> "slice bounds out of range",
                       index |-> pre, ret |-> NilIndex]
                 ELSE looped(pre, readEntries(Slice(data, HeaderLen, Len(data) - DigestLen),
                                              0, pre.EntryCount, <<>>))
         IN  IF Len(file.data) < DigestLen
             THEN [result |-> "panic", err |-> "slice bounds out of range",
                   index |-> index, ret |-> NilIndex]
             ELSE header(file.data, PrePopulate(index, file.data))

\* the entry loop of fs IndexService.Read, which slices data itself:
\* "panic" when a slice leaves data
RECURSIVE fs_readEntries(_, _, _, _)
fs_readEntries(data, idx, count, acc) ==
    IF ~(idx < Len(data) - DigestLen /\ Len(acc) < count)
    THEN [err |-> "", entries |-> acc]
    ELSE IF idx + FixedLen > Len(data) THEN [err |-> "panic", entries |-> <<>>]
    ELSE LET end == IndexByte(data, idx + FixedLen, 0)
         IN  IF end < 0 THEN [err |-> "panic", entries |-> <<>>]
             ELSE LET path == Slice(data, idx + FixedLen, idx + FixedLen + end)
                  IN  fs_readEntries(data, idx + ((FixedLen + Len(path) + 8) \div 8) * 8,
                                     count, Append(acc, DecodeFixed(data, idx, path)))

\* IndexService.Read of package fs
fs_IndexService_Read(index, file) ==
    IF ~file.exists
    THEN [result |-> "ok", err |-> "", index |-> index, ret |-> NewIndexService]
    ELSE LET looped(pre, r) ==
                 IF r.err # ""
                 THEN [result |-> "panic", err |-> "slice bounds out of range",
                       index |-> pre, ret |-> NilIndex]
                 ELSE [result |-> "ok", err |-> "",
                       index |-> [pre EXCEPT !.Entries = r.entries],
                       ret |-> [pre EXCEPT !.Entries = r.entries]]
             header(data, pre) ==
                 IF pre.Version # <<50>>
                 THEN [result |-> "error", err |-> "unsupported version",
                       index |-> pre, ret |-> NilIndex]
                 ELSE IF ~DigestsMatch(pre.Hash, data)
                 THEN [result |-> "error", err |-> "digests don't match",
                       index |-> pre, ret |-> NilIndex]
                 ELSE looped(pre, fs_readEntries(data, HeaderLen, pre.EntryCount, <<>>))
         IN  IF Len(file.data) < DigestLen
             THEN [result |-> "panic", err |-> "slice bounds out of range",
                   index |-> index, ret |-> NilIndex]
             ELSE header(file.data, PrePopulate(index, file.data))

(***************************************************************************)
(* Objects and the object store: src/unnamed/part_003.                     *)
(***************************************************************************)
\* join(header, data)
join(header, data) == header \o data

\* Blob.Marshal: "blob <len>\x00" and the data
Blob_Marshal(data) == join(<<98, 108, 111, 98, 32>> \o Dec(Len(data)) \o <<0>>, data)

\* one line of a tree: "%o %s\x00%s" of mode, path, sha1
TreeLine(e) == Oct(e.mode) \o <<32>> \o e.path \o <<0>> \o e.sha1

\* trees that are written without their lines
Mut_TreeLines(es) == <<>>

RECURSIVE TreeLines(_)
TreeLines(es) == IF es = <<>> THEN <<>> ELSE TreeLine(Head(es)) \o TreeLines(Tail(es))

\* Tree.Marshal: "tree <len>\x00" and the lines
Tree_Marshal(entries) ==
    LET data == TreeLines(entries)
    IN  join(<<116, 114, 101, 101, 32>> \o Dec(Len(data)) \o <<0>>, data)

\* the author time of a commit made at `now` in UTC: "<seconds> -0000" (the
\* sign is "+" only for an offset above 0)
AuthorTime(now) == Dec(now) \o <<32, 45, 48, 48, 48, 48>>

\* the text of a commit: tree line, parent line when there is a parent,
\* author and committer lines, a blank line, the message
CommitText(c) ==
    LET who == c.Author \o <<32, 60>> \o c.AuthorEmail \o <<62, 32>> \o AuthorTime(c.AuthorTime)
    IN  <<116, 114, 101, 101, 32>> \o c.Tree \o <<10>>
        \o (IF Len(c.Parent) > 0
            THEN <<112, 97, 114, 101, 110, 116, 32>> \o c.Parent \o <<10>>
            ELSE <<>>)
        \o <<97, 117, 116, 104, 111, 114, 32>> \o who \o <<10>>
        \o <<99, 111, 109, 109, 105, 116, 116, 101, 114, 32>> \o who \o <<10>>
        \o <<10>> \o c.Message \o <<10>>

\* Commit.Marshal: "commit <len>\x00" and the text
Commit_Marshal(c) ==
    LET data == CommitText(c)
    IN  join(<<99, 111, 109, 109, 105, 116, 32>> \o Dec(Len(data)) \o <<0>>, data)

\* zlib: the stream is the two header bytes, the data (stored blocks) and a
\* checksum of the data; reading back fails on a stream that is cut or altered
zlibWrite(data) == <<120, 156>> \o data \o <<sha1Sigma(data, 1, Len(data))>>

zlibOk(z) ==
    /\ Len(z) >= 3
    /\ SubSeq(z, 1, 2) = <<120, 156>>
    /\ z[Len(z)] = sha1Sigma(z, 3, Len(z) - 1)

zlibRead(z) == SubSeq(z, 3, Len(z) - 1)

\* the empty object store
NoObjects == [dirs |-> {}, files |-> <<>>]

\* a file name that keeps the two characters of the directory
Mut_ObjectPath(hashStr) == <<SubSeq(hashStr, 1, 2), hashStr>>

\* the file of an object: objects/<hash[:2]>/<hash[2:]>
ObjectPath(hashStr) == <<SubSeq(hashStr, 1, 2), SubSeq(hashStr, 3, Len(hashStr))>>

HasObjectFile(objects, path) == path \in DOMAIN objects.files

WriteObjectFile(objects, path, bytes) ==
    [objects EXCEPT !.files =
        [q \in (DOMAIN objects.files) \cup {path} |->
            IF q = path THEN bytes ELSE objects.files[q]]]

\* os.MkdirAll of the fan-out directory
MkdirAll(objects, dir) == [objects EXCEPT !.dirs = @ \cup {dir}]

\* a HashObject that hashes the payload without its header
Mut_HashObject(data) == sha1Sum(Slice(data, IndexByte(data, 0, 0) + 1, Len(data)))

\* ObjectService.HashObject: the digest of the marshalled object
HashObject(data) == sha1Sum(data)

\* a StoreObject that does not look at what WriteFile answers
Mut_StoreObject(objects, data, fault) ==
    LET storeAt(hash, path) ==
            IF fault = "mkdir"
            THEN [err |-> "mkdir", hash |-> <<>>, objects |-> objects]
            ELSE [err |-> "", hash |-> hash,
                  objects |-> WriteObjectFile(MkdirAll(objects, path[1]), path,
                                  IF fault = "write" THEN <<>> ELSE zlibWrite(data))]
        hashed(hash) == storeAt(hash, ObjectPath(Hex(hash)))
    IN  hashed(sha1Sum(data))

\* ObjectService.StoreObject on a marshalled object: [err, hash, objects].
\* fault is what the file system refuses: "" nothing, "mkdir" the fan-out
\* directory, "write" the write of the file, which ioutil.WriteFile has
\* already created or truncated
StoreObject(objects, data, fault) ==
    LET storeAt(hash, path) ==
            IF fault = "mkdir"
            THEN [err |-> "mkdir", hash |-> <<>>, objects |-> objects]
            ELSE IF fault = "write"
            THEN [err |-> "write", hash |-> hash,
                  objects |-> WriteObjectFile(MkdirAll(objects, path[1]), path, <<>>)]
            ELSE [err |-> "", hash |-> hash,
                  objects |-> WriteObjectFile(MkdirAll(objects, path[1]), path,
                                              zlibWrite(data))]
        hashed(hash) == storeAt(hash, ObjectPath(Hex(hash)))
    IN  hashed(sha1Sum(data))

\* ObjectService.store of package fs, on header and data
fs_store(objects, header, data, fault) ==
    LET storeAt(content, hash1, path) ==
            IF fault = "mkdir"
            THEN [err |-> "mkdir", hash |-> <<>>, objects |-> objects]
            ELSE IF fault = "write"
            THEN [err |-> "write", hash |-> <<>>,
                  objects |-> WriteObjectFile(MkdirAll(objects, path[1]), path, <<>>)]
            ELSE [err |-> "", hash |-> hash1,
                  objects |-> WriteObjectFile(MkdirAll(objects, path[1]), path,
                                              zlibWrite(content))]
        hashed(content, hash1) == storeAt(content, hash1, ObjectPath(Hex(hash1)))
        joined(content) == hashed(content, sha1Sum(content))
    IN  joined(header \o data)

\* ObjectService.Store of package fs: objType is "blob", "tree" or "commit"
\* as text
fs_Store(objects, objType, data, fault) ==
    fs_store(objects, objType \o <<32>> \o Dec(Len(data)) \o <<0>>, data, fault)

\* ObjectService.ReadObject: the object's bytes after the first NUL
ReadObject(objects, hashStr) ==
    LET path == ObjectPath(hashStr)
    IN  IF ~HasObjectFile(objects, path)
        THEN [err |-> "not exist", data |-> <<>>]
        ELSE IF ~zlibOk(objects.files[path])
        THEN [err |-> "zlib", data |-> <<>>]
        ELSE LET contents == zlibRead(objects.files[path])
                 i == IndexByte(contents, 0, 0)
             IN  [err |-> "", data |-> Slice(contents, i + 1, Len(contents))]

\* ObjectService.Read of package fs: the whole content, header included
fs_Read(objects, hashStr) ==
    LET path == ObjectPath(hashStr)
    IN  IF ~HasObjectFile(objects, path)
        THEN [err |-> "not exist", data |-> <<>>]
        ELSE IF ~zlibOk(objects.files[path])
        THEN [err |-> "zlib", data |-> <<>>]
        ELSE [err |-> "", data |-> zlibRead(objects.files[path])]

(***************************************************************************)
(* Paths: path/filepath and strings of the Go library.                     *)
(***************************************************************************)
\* the offset of the last "/" of path, 0 when there is none
LastSlash(path) ==
    LET at == {i \in 1..Len(path) : path[i] = 47}
    IN  IF at = {} THEN 0 ELSE CHOOSE i \in at : \A j \in at : j <= i

\* filepath.Split: the directory, with its final "/", and the file
SplitDir(path) == SubSeq(path, 1, LastSlash(path))

SplitFile(path) == SubSeq(path, LastSlash(path) + 1, Len(path))

\* strings.Split(s, "/")
RECURSIVE SplitSlash(_)
SplitSlash(s) ==
    LET i == IndexByte(s, 0, 47)
    IN  IF i < 0 THEN <<s>>
        ELSE <<SubSeq(s, 1, i)>> \o SplitSlash(SubSeq(s, i + 2, Len(s)))

RECURSIVE JoinSlash(_)
JoinSlash(segs) ==
    IF segs = <<>> THEN <<>>
    ELSE IF Len(segs) = 1 THEN segs[1]
    ELSE segs[1] \o <<47>> \o JoinSlash(Tail(segs))

\* the segments filepath.Clean keeps: no empty one, no ".", and ".." takes
\* back the segment before it
RECURSIVE CleanSegs(_, _, _)
CleanSegs(segs, out, rooted) ==
    IF segs = <<>> THEN out
    ELSE LET h == Head(segs)
         IN  IF h = <<>> \/ h = <<46>> THEN CleanSegs(Tail(segs), out, rooted)
             ELSE IF h = <<46, 46>>
             THEN IF out # <<>> /\ out[Len(out)] # <<46, 46>>
                  THEN CleanSegs(Tail(segs), SubSeq(out, 1, Len(out) - 1), rooted)
                  ELSE IF rooted THEN CleanSegs(Tail(segs), out, rooted)
                  ELSE CleanSegs(Tail(segs), Append(out, h), rooted)
             ELSE CleanSegs(Tail(segs), Append(out, h), rooted)

\* filepath.Clean
Clean(path) ==
    IF path = <<>> THEN <<46>>
    ELSE LET rooted == path[1] = 47
             body == JoinSlash(CleanSegs(SplitSlash(path), <<>>, rooted))
         IN  IF rooted THEN <<47>> \o body
             ELSE IF body = <<>> THEN <<46>> ELSE body

\* filepath.Join(a, b): the non-empty elements joined by "/", cleaned
Join(a, b) ==
    IF a = <<>> /\ b = <<>> THEN <<>>
    ELSE IF a = <<>> THEN Clean(b)
    ELSE IF b = <<>> THEN Clean(a)
    ELSE Clean(a \o <<47>> \o b)

\* strings.Trim(s, cutset): cut the leading and trailing bytes of cutset
Trim(s, cutset) ==
    LET keep == {i \in 1..Len(s) : s[i] \notin cutset}
    IN  IF keep = {} THEN <<>>
        ELSE SubSeq(s, CHOOSE i \in keep : \A j \in keep : i <= j,
                       CHOOSE i \in keep : \A j \in keep : j <= i)

\* bytes.TrimSpace
TrimSpace(s) == Trim(s, {9, 10, 11, 12, 13, 32})

(***************************************************************************)
(* Tree synthesis: writeSubTree of src/mgi.go and src/fs/mgi.go.           *)
(***************************************************************************)
\* the names of children in ascending order (sort.Slice on path)
RECURSIVE SortNames(_)
SortNames(names) ==
    IF names = {} THEN <<>>
    ELSE LET m == CHOOSE x \in names : \A y \in names : x = y \/ StrLess(x, y)
         IN  <<m>> \o SortNames(names \ {m})

SetChild(children, e) ==
    [n \in (DOMAIN children) \cup {e.path} |-> IF n = e.path THEN e ELSE children[n]]

\* ObjectType as text: "blob", "tree", "commit"
ObjectTypeText(kind) ==
    IF kind = "blob" THEN <<98, 108, 111, 98>>
    ELSE IF kind = "tree" THEN <<116, 114, 101, 101>>
    ELSE <<99, 111, 109, 109, 105, 116>>

\* the content of an object without its header, as package fs hands it to
\* Store
ObjectText(kind, obj) ==
    IF kind = "blob" THEN obj
    ELSE IF kind = "tree" THEN TreeLines(obj)
    ELSE CommitText(obj)

\* Object.Marshal of the root package
Object_Marshal(kind, obj) ==
    IF kind = "blob" THEN Blob_Marshal(obj)
    ELSE IF kind = "tree" THEN Tree_Marshal(obj)
    ELSE Commit_Marshal(obj)

\* the StoreObject call of a handler: ctx carries the object store, the
\* calls made so far (stores: what was stored, for which path, and the
\* answer) and the handler's fault plan: the call number plan.at fails as
\* plan.kind
StoreIn(impl, ctx, kind, obj, for) ==
    LET stored(fault, r) ==
            [err |-> r.err, hash |-> r.hash,
             ctx |-> [ctx EXCEPT !.objects = r.objects,
                                 !.stores = Append(@, [kind |-> kind, for |-> for,
                                                       fault |-> fault, err |-> r.err,
                                                       hash |-> r.hash,
                                                       lines |-> IF kind = "tree" THEN obj
                                                                 ELSE <<>>])]]
        call(fault) ==
            stored(fault,
                   IF impl = "fs"
                   THEN fs_Store(ctx.objects, ObjectTypeText(kind), ObjectText(kind, obj),
                                 fault)
                   ELSE StoreObject(ctx.objects, Object_Marshal(kind, obj), fault))
    IN  call(IF ctx.plan.at = Len(ctx.stores) + 1 THEN ctx.plan.kind ELSE "")

RECURSIVE writeSubTree(_, _, _, _)
RECURSIVE subTreeChildren(_, _, _, _, _, _)

\* the loop of writeSubTree over the entries from the k-th on:
\* [err, children, ctx]
subTreeChildren(impl, subTree, entries, k, children, ctx) ==
    IF k > Len(entries) THEN [err |-> "", children |-> children, ctx |-> ctx]
    ELSE LET indexEntry == entries[k]
             entryDir == SplitDir(indexEntry.Path)
             entryFile == SplitFile(indexEntry.Path)
         IN  IF entryDir = subTree
             THEN subTreeChildren(impl, subTree, entries, k + 1,
                      SetChild(children, [mode |-> indexEntry.Mode, path |-> entryFile,
                                          sha1 |-> indexEntry.Hash]), ctx)
             ELSE IF HasPrefix(entryDir, subTree)
             THEN LET relEntry == TrimPrefix(entryDir, subTree)
                      directChild == SplitSlash(relEntry)[1]
                      nextDirPath == Join(subTree, directChild) \o <<47>>
                  IN  IF directChild \in DOMAIN children
                      THEN subTreeChildren(impl, subTree, entries, k + 1, children, ctx)
                      ELSE IF nextDirPath = subTree
                      THEN [err |-> "stack overflow", children |-> children, ctx |-> ctx]
                      ELSE LET written(sub) ==
                                   IF sub.err # ""
                                   THEN [err |-> sub.err, children |-> children,
                                         ctx |-> sub.ctx]
                                   ELSE subTreeChildren(impl, subTree, entries, k + 1,
                                            SetChild(children, [mode |-> ModeDir,
                                                                path |-> directChild,
                                                                sha1 |-> sub.hash]),
                                            sub.ctx)
                           IN  written(writeSubTree(impl, nextDirPath, entries, ctx))
             ELSE subTreeChildren(impl, subTree, entries, k + 1, children, ctx)

\* a writeSubTree that writes the tree of a directory with nothing in it
Mut_HasChildren(children) == TRUE

\* len(children) > 0
HasChildren(children) == DOMAIN children # {}

\* a directory path with its final "/", the root being ""
DirPath(p) == IF Len(p) > 0 /\ ~HasSuffix(p, <<47>>) THEN p \o <<47>> ELSE p

\* MGIService.writeSubTree: [err, hash, ctx]
writeSubTree(impl, subTree0, entries, ctx) ==
    LET stored(st) ==
            [err |-> st.err, hash |-> IF st.err = "" THEN st.hash ELSE <<>>,
             ctx |-> st.ctx]
        sorted(subTree, loop, names) ==
            stored(StoreIn(impl, loop.ctx, "tree",
                           [i \in 1..Len(names) |-> loop.children[names[i]]], subTree))
        looped(subTree, loop) ==
            IF loop.err # "" THEN [err |-> loop.err, hash |-> <<>>, ctx |-> loop.ctx]
            ELSE IF HasChildren(loop.children)
            THEN sorted(subTree, loop, SortNames(DOMAIN loop.children))
            ELSE [err |-> "failed to write a tree", hash |-> <<>>, ctx |-> loop.ctx]
        named(subTree) ==
            looped(subTree, subTreeChildren(impl, subTree, entries, 1, <<>>, ctx))
    IN  named(DirPath(IF subTree0 = <<46>> THEN <<>> ELSE subTree0))

(***************************************************************************)
(* The working tree and the branch pointer.                                *)
(***************************************************************************)
\* os.Stat of a file of the working tree
Stat(f, path) ==
    [CtimSec |-> 1, CtimNsec |-> 2, MtimSec |-> f.mtime, MtimNsec |-> 4,
     Dev |-> 5, Ino |-> 6 + Len(path), Exec |-> f.exec, Uid |-> 7, Gid |-> 8,
     Size |-> Len(f.data)]

\* IndexService.Store: Marshal, then open the index file truncating it and
\* write: [err, index, file].  fault: "" nothing, "open" OpenFile fails,
\* "write" the write fails after the truncation
IndexService_Store(index, file, fault) ==
    LET marshalled(m) ==
            IF m.err # "" THEN [err |-> m.err, index |-> m.index, file |-> file]
            ELSE IF fault = "open" THEN [err |-> "open", index |-> m.index, file |-> file]
            ELSE IF fault = "write"
            THEN [err |-> "write", index |-> m.index, file |-> File(<<>>)]
            ELSE [err |-> "", index |-> m.index, file |-> File(m.data)]
    IN  marshalled(Marshal(index))

\* the faults a handler can meet, as its plan: op "none"; "read", "stat" at
\* the at-th file of an Add; "store" at the at-th StoreObject call, of kind
\* "mkdir" or "write"; "index" (kind "open" or "write") in IndexService.Store;
\* "head" reading the branch pointer; "ref" (kind "open", "write", "newline")
\* writing it
NoFault == [op |-> "none", at |-> 0, kind |-> ""]

StorePlan(plan) == IF plan.op = "store" THEN [at |-> plan.at, kind |-> plan.kind]
                   ELSE [at |-> 0, kind |-> ""]

\* IndexService.Read of the generation that runs
ReadIndex(impl, index, file) ==
    IF impl = "mgi" THEN IndexService_Read(index, file)
    ELSE fs_IndexService_Read(index, file)

\* the loop of MGIService.Add over the files from the k-th on: [err, index, ctx]
RECURSIVE addFiles(_, _, _, _, _, _, _)
addFiles(impl, files, k, index, ctx, wt, plan) ==
    IF k > Len(files) THEN [err |-> "", index |-> index, ctx |-> ctx]
    ELSE LET stored(f, st) ==
                 IF st.err # "" THEN [err |-> st.err, index |-> index, ctx |-> st.ctx]
                 ELSE IF plan.op = "stat" /\ plan.at = k
                 THEN [err |-> "stat", index |-> index, ctx |-> st.ctx]
                 ELSE addFiles(impl, files, k + 1,
                          IF impl = "mgi"
                          THEN IndexService_Add(index, f, st.hash, Stat(wt[f], f))
                          ELSE fs_IndexService_Add(index, f, st.hash, Stat(wt[f], f)),
                          st.ctx, wt, plan)
             file(f) ==
                 IF ~(/\ f \in DOMAIN wt
                      /\ wt[f].exists
                      /\ ~(plan.op = "read" /\ plan.at = k))
                 THEN [err |-> "read", index |-> index, ctx |-> ctx]
                 ELSE stored(f, StoreIn(impl, ctx, "blob", wt[f].data, f))
         IN  file(IF impl = "mgi" THEN TrimPrefix(files[k], <<46, 47>>)
                  ELSE Trim(files[k], {46, 47}))

\* an Add that stores the index whatever happened to the files
Mut_MGIService_Add(impl, index, file, objects, wt, files, plan) ==
    LET saved(lp, sr) ==
            [result |-> IF lp.err = "" /\ sr.err = "" THEN "ok" ELSE "error",
             err |-> IF lp.err # "" THEN lp.err ELSE sr.err,
             index |-> sr.index, file |-> sr.file,
             objects |-> lp.ctx.objects, stores |-> lp.ctx.stores]
        added(lp) ==
            saved(lp, IndexService_Store(lp.index, file,
                          IF plan.op = "index" THEN plan.kind ELSE ""))
        read(rd) ==
            IF rd.result # "ok"
            THEN [result |-> rd.result, err |-> "error reading index file",
                  index |-> rd.index, file |-> file, objects |-> objects, stores |-> <<>>]
            ELSE added(addFiles(impl, files, 1, rd.index,
                                [objects |-> objects, stores |-> <<>>,
                                 plan |-> StorePlan(plan)], wt, plan))
    IN  read(ReadIndex(impl, index, file))

\* MGIService.Add: [result, err, index, file, objects, stores]
MGIService_Add(impl, index, file, objects, wt, files, plan) ==
    LET saved(lp, sr) ==
            [result |-> IF sr.err = "" THEN "ok" ELSE "error",
             err |-> sr.err, index |-> sr.index, file |-> sr.file,
             objects |-> lp.ctx.objects, stores |-> lp.ctx.stores]
        added(lp) ==
            IF lp.err # ""
            THEN [result |-> "error", err |-> lp.err, index |-> lp.index,
                  file |-> file, objects |-> lp.ctx.objects, stores |-> lp.ctx.stores]
            ELSE saved(lp, IndexService_Store(lp.index, file,
                               IF plan.op = "index" THEN plan.kind ELSE ""))
        read(rd) ==
            IF rd.result # "ok"
            THEN [result |-> rd.result, err |-> "error reading index file",
                  index |-> rd.index, file |-> file, objects |-> objects, stores |-> <<>>]
            ELSE added(addFiles(impl, files, 1, rd.index,
                                [objects |-> objects, stores |-> <<>>,
                                 plan |-> StorePlan(plan)], wt, plan))
    IN  read(ReadIndex(impl, index, file))

\* MGIService.currentHead: the branch pointer without its white space, ""
\* when refs/heads/master does not exist
currentHead(ref) == IF ~ref.exists THEN <<>> ELSE TrimSpace(ref.data)

\* the author Commit takes from the environment (USER=u, HOSTNAME=h; package
\* fs writes "Fabio <fabio@fabio>")
Author(impl) == IF impl = "fs" THEN <<70, 97, 98, 105, 111>> ELSE <<117>>

AuthorEmail(impl) ==
    IF impl = "fs" THEN <<102, 97, 98, 105, 111, 64, 102, 97, 98, 105, 111>>
    ELSE <<117, 64, 104>>

\* MGIService.writeTree: [result, err, hash (hex), index, ctx]
writeTree(impl, index, file, ctx) ==
    LET written(rd, t) ==
            [result |-> IF t.err = "" THEN "ok" ELSE "error", err |-> t.err,
             hash |-> IF t.err = "" THEN Hex(t.hash) ELSE <<>>,
             index |-> rd.index, ctx |-> t.ctx]
        read(rd) ==
            IF rd.result # "ok"
            THEN [result |-> rd.result, err |-> rd.err, hash |-> <<>>, index |-> rd.index,
                  ctx |-> ctx]
            ELSE written(rd, writeSubTree(impl, <<46>>, rd.ret.Entries, ctx))
    IN  read(ReadIndex(impl, index, file))

\* MGIService.Commit: [result, err, hash, parent, index, objects, ref, stores]
MGIService_Commit(impl, index, file, objects, ref, msg, now, plan) ==
    LET out(tree, parent, result, err, hash, ctx, newref) ==
            [result |-> result, err |-> err, hash |-> hash, parent |-> parent,
             index |-> tree.index, objects |-> ctx.objects, ref |-> newref,
             stores |-> ctx.stores]
        stored(tree, parent, st) ==
            IF st.err # "" THEN out(tree, parent, "error", st.err, <<>>, st.ctx, ref)
            ELSE IF plan.op = "ref" /\ plan.kind = "open"
            THEN out(tree, parent, "error", "open", st.hash, st.ctx, ref)
            ELSE IF plan.op = "ref" /\ plan.kind = "write"
            THEN out(tree, parent, "ok", "", st.hash, st.ctx, File(<<>>))
            ELSE IF plan.op = "ref" /\ plan.kind = "newline"
            THEN out(tree, parent, "ok", "", st.hash, st.ctx, File(Hex(st.hash)))
            ELSE out(tree, parent, "ok", "", st.hash, st.ctx,
                     File(Hex(st.hash) \o <<10>>))
        headed(tree, parent) ==
            stored(tree, parent,
                   StoreIn(impl, tree.ctx, "commit",
                           [Parent |-> parent, Tree |-> tree.hash, Author |-> Author(impl),
                            AuthorEmail |-> AuthorEmail(impl), AuthorTime |-> now,
                            Message |-> msg], parent))
        written(tree) ==
            IF tree.result # "ok"
            THEN out(tree, <<>>, tree.result, tree.err, <<>>, tree.ctx, ref)
            ELSE IF plan.op = "head"
            THEN out(tree, <<>>, "error", "read", <<>>, tree.ctx, ref)
            ELSE headed(tree, currentHead(ref))
    IN  written(writeTree(impl, index, file,
                          [objects |-> objects, stores |-> <<>>, plan |-> StorePlan(plan)]))

(***************************************************************************)
(* The state: one repository, its working tree and one process's services. *)
(***************************************************************************)
VARIABLES
    impl,       \* the generation of the code that runs: "mgi" or "fs"
    wt,         \* the working tree: path -> [exists, data, exec, mtime]
    index,      \* IndexService.index, the index in memory
    indexFile,  \* .git/index
    objects,    \* .git/objects: the fan-out directories and the object files
    ref,        \* .git/refs/heads/master
    clock,      \* the wall clock, in seconds
    steps,      \* operations done
    last        \* the last operation: what was asked and what it answered

vars == <<impl, wt, index, indexFile, objects, ref, clock, steps, last>>

Impls == {"mgi", "fs"}

\* "a/b/c.txt", "a/bc.txt", "a/b/d.txt": the files of the working tree
pathABC == <<97, 47, 98, 47, 99, 46, 116, 120, 116>>

pathABc == <<97, 47, 98, 99, 46, 116, 120, 116>>

pathABD == <<97, 47, 98, 47, 100, 46, 116, 120, 116>>

\* "gone.txt": a path with no file
pathGone == <<103, 111, 110, 101, 46, 116, 120, 116>>

WtPaths == {pathABC, pathABc, pathABD}

\* "hi" and "x": what a file holds before and after an edit
TextHi == <<104, 105>>

TextX == <<120>>

\* the file lists given to MGIService.Add
Batches ==
    { <<pathABc>>, <<pathABc, pathABc>>, <<pathABc, pathABC, pathABD>>,
      <<pathABC, pathGone>>, <<>> }

\* "m": the commit message
Messages == { <<109>> }

\* the faults an Add of files can meet
AddFaults(files) ==
    {NoFault}
    \cup {[op |-> o, at |-> k, kind |-> ""] : o \in {"read", "stat"}, k \in {1, Len(files)} \ {0}}
    \cup {[op |-> "store", at |-> k, kind |-> d] : k \in {1, Len(files)} \ {0}, d \in {"mkdir", "write"}}
    \cup {[op |-> "index", at |-> 0, kind |-> d] : d \in {"open", "write"}}

\* the faults a Commit can meet: the StoreObject calls are those of the
\* trees, then that of the commit
CommitFaults ==
    {NoFault}
    \cup {[op |-> "store", at |-> k, kind |-> d] : k \in 1..4, d \in {"mkdir", "write"}}
    \cup {[op |-> "head", at |-> 0, kind |-> ""]}
    \cup {[op |-> "ref", at |-> 0, kind |-> d] : d \in {"open", "write", "newline"}}

NoLast ==
    [op |-> "", result |-> "", err |-> "", files |-> <<>>, plan |-> NoFault,
     hash |-> <<>>, parent |-> <<>>, stores |-> <<>>, ret |-> NilIndex, now |-> 0,
     at |-> 0 - 1, cut |-> 0 - 1, had |-> FALSE]

Init ==
    /\ impl \in Impls
    /\ wt = [p \in WtPaths |-> [exists |-> TRUE, data |-> TextHi, exec |-> p = pathABD,
                                mtime |-> 3]]
    /\ index = NewIndexService
    /\ indexFile = NoFile
    /\ objects = NoObjects
    /\ ref = NoFile
    /\ clock = 0
    /\ steps = 0
    /\ last = NoLast

\* a new process: the services are built afresh
NewProcess ==
    /\ index # NewIndexService
    /\ index' = NewIndexService
    /\ last' = [NoLast EXCEPT !.op = "New"]
    /\ UNCHANGED <<impl, wt, indexFile, objects, ref, clock, steps>>

\* an edit of a file of the working tree
EditFile(p) ==
    /\ steps < MaxSteps
    /\ wt[p].data = TextHi
    /\ wt' = [wt EXCEPT ![p].data = TextX, ![p].mtime = 4]
    /\ steps' = steps + 1
    /\ last' = [NoLast EXCEPT !.op = "Edit", !.files = <<p>>]
    /\ UNCHANGED <<impl, index, indexFile, objects, ref, clock>>

\* MGIService.Add(files)
DoAdd(files, plan) ==
    /\ steps < MaxSteps
    /\ \E r \in {MGIService_Add(impl, index, indexFile, objects, wt, files, plan)} :
           /\ index' = r.index
           /\ indexFile' = r.file
           /\ objects' = r.objects
           /\ last' = [NoLast EXCEPT !.op = "Add", !.result = r.result, !.err = r.err,
                                     !.files = files, !.plan = plan, !.stores = r.stores]
    /\ steps' = steps + 1
    /\ UNCHANGED <<impl, wt, ref, clock>>

\* MGIService.Commit(msg) at time now
DoCommit(msg, now, plan) ==
    /\ steps < MaxSteps
    /\ plan.op = "head" => ref.exists
    /\ \E r \in {MGIService_Commit(impl, index, indexFile, objects, ref, msg, now, plan)} :
           /\ index' = r.index
           /\ objects' = r.objects
           /\ ref' = r.ref
           /\ last' = [NoLast EXCEPT !.op = "Commit", !.result = r.result, !.err = r.err,
                                     !.files = <<msg>>, !.plan = plan, !.hash = r.hash,
                                     !.parent = r.parent, !.stores = r.stores,
                                     !.now = now]
    /\ clock' = now
    /\ steps' = steps + 1
    /\ UNCHANGED <<impl, wt, indexFile>>

Next ==
    \/ NewProcess
    \/ \E p \in {pathABc} : EditFile(p)
    \/ \E files \in Batches : \E plan \in AddFaults(files) : DoAdd(files, plan)
    \/ \E msg \in Messages : \E now \in clock..MaxClock : \E plan \in CommitFaults :
          DoCommit(msg, now, plan)

Spec == Init /\ [][Next]_vars

(***************************************************************************)
(* The index service on its own: IndexService.Add, Store and Read called   *)
(* directly, a byte of the index file changed behind the program's back,   *)
(* and writeSubTree on the entries in memory.                              *)
(***************************************************************************)
\* "a" and "a/x": a file, and a file below a directory of the same name
pathA == <<97>>

pathAX == <<97, 47, 120>>

IxPaths == {pathA, pathAX, pathABc, pathABC, pathABD}

\* what the file at a path holds when it is staged
IxTexts(p) == IF p = pathABc THEN {TextHi, TextX} ELSE {TextHi}

\* IndexService.Add(path, hash) where path holds data
IxAdd(path, data) ==
    /\ steps < MaxIxSteps
    /\ index' = IF impl = "mgi"
                THEN IndexService_Add(index, path, HashObject(Blob_Marshal(data)),
                         Stat([data |-> data, exec |-> FALSE, mtime |-> 3], path))
                ELSE fs_IndexService_Add(index, path, HashObject(Blob_Marshal(data)),
                         Stat([data |-> data, exec |-> FALSE, mtime |-> 3], path))
    /\ steps' = steps + 1
    /\ last' = [NoLast EXCEPT !.op = "IxAdd", !.result = "ok", !.files = <<path>>]
    /\ UNCHANGED <<impl, wt, indexFile, objects, ref, clock>>

\* IndexService.Store()
IxStore ==
    /\ steps < MaxIxSteps
    /\ \E sr \in {IndexService_Store(index, indexFile, "")} :
           /\ index' = sr.index
           /\ indexFile' = sr.file
           /\ last' = [NoLast EXCEPT !.op = "Store",
                                     !.result = IF sr.err = "" THEN "ok" ELSE "error",
                                     !.err = sr.err, !.ret = sr.index]
    /\ steps' = steps + 1
    /\ UNCHANGED <<impl, wt, objects, ref, clock>>

\* IndexService.Read(); of a file that was just changed, `at` keeps the
\* offset, and of a file that was just cut, `cut` keeps the length
IxRead ==
    /\ steps < MaxIxSteps
    /\ \E rd \in {ReadIndex(impl, index, indexFile)} :
           /\ index' = rd.index
           /\ last' = [NoLast EXCEPT !.op = "Read", !.result = rd.result,
                                     !.err = rd.err, !.ret = rd.ret,
                                     !.at = IF last.op = "Flip" THEN last.at ELSE 0 - 1,
                                     !.cut = IF last.op = "Cut" THEN last.cut
                                             ELSE 0 - 1]
    /\ steps' = steps + 1
    /\ UNCHANGED <<impl, wt, indexFile, objects, ref, clock>>

\* one byte of the index file just stored, at offset pos, takes another value
IxFlip(pos) ==
    /\ steps < MaxIxSteps
    /\ last.op = "Store" /\ last.result = "ok"
    /\ pos < Len(indexFile.data)
    /\ indexFile' = File([indexFile.data EXCEPT ![pos + 1] = (@ + 1) % 128])
    /\ steps' = steps + 1
    /\ last' = [NoLast EXCEPT !.op = "Flip", !.at = pos]
    /\ UNCHANGED <<impl, wt, index, objects, ref, clock>>

\* the index file just stored is cut to its first n bytes: what a crash
\* between the truncation and the end of the write leaves
IxCut(n) ==
    /\ steps < MaxIxSteps
    /\ last.op = "Store" /\ last.result = "ok"
    /\ n < Len(indexFile.data)
    /\ indexFile' = File(SubSeq(indexFile.data, 1, n))
    /\ steps' = steps + 1
    /\ last' = [NoLast EXCEPT !.op = "Cut", !.cut = n]
    /\ UNCHANGED <<impl, wt, index, objects, ref, clock>>

\* writeSubTree(".", entries) on the entries of the index in memory
IxWriteSubTree ==
    /\ steps < MaxIxSteps
    /\ \E t \in {writeSubTree(impl, <<46>>, index.Entries,
                               [objects |-> objects, stores |-> <<>>,
                                plan |-> StorePlan(NoFault)])} :
           /\ objects' = t.ctx.objects
           /\ last' = [NoLast EXCEPT !.op = "Tree",
                                     !.result = IF t.err = "" THEN "ok" ELSE "error",
                                     !.err = t.err, !.hash = t.hash,
                                     !.stores = t.ctx.stores, !.ret = index]
    /\ steps' = steps + 1
    /\ UNCHANGED <<impl, wt, index, indexFile, ref, clock>>

NextIndex ==
    \/ NewProcess
    \/ \E p \in IxPaths : \E d \in IxTexts(p) : IxAdd(p, d)
    \/ IxStore
    \/ IxRead
    \/ \E pos \in 0..MaxIndexFile : IxFlip(pos)
    \/ \E n \in 0..MaxIndexFile : IxCut(n)
    \/ IxWriteSubTree

SpecIndex == Init /\ [][NextIndex]_vars

(***************************************************************************)
(* The object store on its own: StoreObject and ReadObject called directly. *)
(***************************************************************************)
\* the contents of the blobs stored: "", "x", "hi", "ih" and "h\0i", which
\* holds a NUL
ObjTexts == {<<>>, TextX, TextHi, <<105, 104>>, <<104, 0, 105>>}

\* StoreObject(&Blob{data}), which the file system may refuse
ObjStore(data, fault) ==
    /\ steps < MaxObjSteps
    /\ \E st \in {StoreIn(impl, [objects |-> objects, stores |-> <<>>,
                                  plan |-> [at |-> 1, kind |-> fault]],
                           "blob", data, <<>>)} :
           /\ objects' = st.ctx.objects
           /\ last' = [NoLast EXCEPT !.op = "ObjStore",
                                     !.result = IF st.err = "" THEN "ok" ELSE "error",
                                     !.err = st.err, !.hash = st.hash,
                                     !.files = <<data>>, !.stores = st.ctx.stores,
                                     !.had = HasObjectFile(objects,
                                                 ObjectPath(Hex(HashObject(Blob_Marshal(data)))))]
    /\ steps' = steps + 1
    /\ UNCHANGED <<impl, wt, index, indexFile, ref, clock>>

\* ReadObject(hash) of the digest of the blob of data
ObjRead(data) ==
    /\ steps < MaxObjSteps
    /\ \E rd \in {IF impl = "mgi"
                   THEN ReadObject(objects, Hex(HashObject(Blob_Marshal(data))))
                   ELSE fs_Read(objects, Hex(HashObject(Blob_Marshal(data))))} :
           last' = [NoLast EXCEPT !.op = "ObjRead",
                                  !.result = IF rd.err = "" THEN "ok" ELSE "error",
                                  !.err = rd.err, !.hash = rd.data, !.files = <<data>>]
    /\ steps' = steps + 1
    /\ UNCHANGED <<impl, wt, index, indexFile, objects, ref, clock>>

\* HashObject(&Blob{data}), which only the root package has
ObjHash(data) ==
    /\ steps < MaxObjSteps
    /\ impl = "mgi"
    /\ last' = [NoLast EXCEPT !.op = "ObjHash", !.result = "ok",
                              !.hash = HashObject(Blob_Marshal(data)),
                              !.files = <<data>>]
    /\ steps' = steps + 1
    /\ UNCHANGED <<impl, wt, index, indexFile, objects, ref, clock>>

NextObj ==
    \/ \E d \in ObjTexts : \E fault \in {"", "mkdir", "write"} : ObjStore(d, fault)
    \/ \E d \in ObjTexts : ObjRead(d)
    \/ \E d \in ObjTexts : ObjHash(d)

SpecObj == Init /\ [][NextObj]_vars

(***************************************************************************)
(* Properties.                                                             *)
(***************************************************************************)
EntryPaths(es) == {es[i].Path : i \in 1..Len(es)}

UniquePaths(es) == \A i, j \in 1..Len(es) : es[i].Path = es[j].Path => i = j

SortedByPath(es) == \A i \in 1..(Len(es) - 1) : StrLess(es[i].Path, es[i + 1].Path)

\* C1: after any sequence of staging operations the index holds at most one
\* entry per path, in every implementation of the index service
C1_OneEntryPerPath == UniquePaths(index.Entries)

\* C2: an index of entries with unique paths, persisted with Store and loaded
\* back with Read, comes back with the same entries field for field, in
\* ascending path order, and the same entry count
C2_RoundTrip ==
    [][(/\ last.op = "Store" /\ last.result = "ok"
        /\ UniquePaths(last.ret.Entries)
        /\ last'.op = "Read")
       => (/\ last'.result = "ok"
           /\ last'.ret.Entries = last.ret.Entries
           /\ SortedByPath(last'.ret.Entries)
           /\ last'.ret.EntryCount = Len(last.ret.Entries))]_vars

\* the text of the commit object stored under a digest
CommitTextOf(objs, hash) ==
    IF impl = "mgi" THEN ReadObject(objs, Hex(hash)).data
    ELSE LET d == fs_Read(objs, Hex(hash)).data
         IN  Slice(d, IndexByte(d, 0, 0) + 1, Len(d))

\* the digest on the parent line of a commit's text, "" when the line after
\* "tree <40 hex>" is not a parent line
ParentLine(text) ==
    IF Slice(text, 46, 53) = <<112, 97, 114, 101, 110, 116, 32>>
    THEN Slice(text, 53, 93) ELSE <<>>

\* C3: the first successful Commit stores a commit with no parent line, every
\* later one a commit whose parent is what the branch pointer held just
\* before, and after each successful Commit the branch pointer holds the
\* digest of the commit just stored
C3_CommitChaining ==
    [][(last'.op = "Commit" /\ last'.result = "ok")
       => (/\ ParentLine(CommitTextOf(objects', last'.hash)) = currentHead(ref)
           /\ ~ref.exists => ParentLine(CommitTextOf(objects', last'.hash)) = <<>>
           /\ currentHead(ref') = Hex(last'.hash))]_vars

\* the object store holds a readable commit object under the hex digest
IsStoredCommit(hashStr) ==
    /\ Len(hashStr) = 2 * DigestLen
    /\ HasObjectFile(objects, ObjectPath(hashStr))
    /\ zlibOk(objects.files[ObjectPath(hashStr)])
    /\ HasPrefix(zlibRead(objects.files[ObjectPath(hashStr)]),
                 <<99, 111, 109, 109, 105, 116, 32>>)

\* the StoreObject call of the commit object failed
CommitStoreFailed(l) ==
    /\ l.op = "Commit"
    /\ l.stores # <<>>
    /\ l.stores[Len(l.stores)].kind = "commit"
    /\ l.stores[Len(l.stores)].err # ""

\* C4: the digest the branch pointer holds names a commit object of the
\* object store, in every state; the branch pointer is written only by a
\* Commit that stored its commit object, and a Commit whose commit object
\* could not be stored leaves it as it was
C4_RefAfterStore ==
    /\ [](currentHead(ref) # <<>> => IsStoredCommit(currentHead(ref)))
    /\ [][/\ CommitStoreFailed(last') => ref' = ref
          /\ ref' # ref => (/\ last'.op = "Commit"
                            /\ last'.stores # <<>>
                            /\ last'.stores[Len(last'.stores)].kind = "commit"
                            /\ last'.stores[Len(last'.stores)].err = "")]_vars

\* a second Commit could not store its commit object and the branch pointer
\* still names the first commit
C4_Witness ==
    /\ CommitStoreFailed(last)
    /\ ref.exists
    /\ IsStoredCommit(currentHead(ref))

\* the directories above a path, each with its final "/", and the root ""
DirsOf(path) == {<<>>} \cup {SubSeq(path, 1, i) : i \in {k \in 1..Len(path) : path[k] = 47}}

Directories(es) == UNION {DirsOf(es[i].Path) : i \in 1..Len(es)}

IsTreeStore(st) == st.kind = "tree"

\* mode and name of the lines of the tree written for dir
TreeOf(stores, dir) ==
    LET t == CHOOSE st \in {stores[i] : i \in 1..Len(stores)} :
                 st.kind = "tree" /\ st.for = dir
    IN  [i \in 1..Len(t.lines) |-> <<t.lines[i].mode, t.lines[i].path>>]

\* C5: writeSubTree writes exactly one tree object per distinct directory of
\* the entries; for a/b/c.txt, a/bc.txt, a/b/d.txt the root tree has the one
\* subtree a, the tree of a/ the blob bc.txt and the subtree b, the tree of
\* a/b/ the blobs c.txt and d.txt
C5_OneTreePerDirectory ==
    (last.op = "Tree" /\ last.result = "ok")
    => LET trees == SelectSeq(last.stores, IsTreeStore)
       IN  /\ Len(trees) = Cardinality(Directories(last.ret.Entries))
           /\ {trees[i].for : i \in 1..Len(trees)} = Directories(last.ret.Entries)
           /\ EntryPaths(last.ret.Entries) = {pathABC, pathABc, pathABD}
              => /\ TreeOf(last.stores, <<>>) = << <<ModeDir, <<97>> >> >>
                 /\ TreeOf(last.stores, <<97, 47>>)
                      = << <<ModeDir, <<98>> >>,
                           <<ModeRegular, <<98, 99, 46, 116, 120, 116>> >> >>
                 /\ TreeOf(last.stores, <<97, 47, 98, 47>>)
                      = << <<ModeRegular, <<99, 46, 116, 120, 116>> >>,
                           <<ModeRegular, <<100, 46, 116, 120, 116>> >> >>

\* C6 as the specification states it: whichever byte of a persisted index
\* file is changed, header included, Read fails with "digests don't match"
C6_AnyByteDigestMismatch ==
    (last.op = "Read" /\ last.at >= 0)
    => (last.result = "error" /\ last.err = "digests don't match")

\* C6: Read of a persisted index file of which one byte was changed fails:
\* with "unsupported version" when the byte is one of the version field
\* (offsets 4 to 7), with "digests don't match" for every other byte
C6_ChecksumGate ==
    (last.op = "Read" /\ last.at >= 0)
    => (/\ last.result = "error"
        /\ last.err = IF last.at \in 4..7 THEN "unsupported version"
                      ELSE "digests don't match")

\* Read met a changed byte of the signature of an index file with an entry
C6_Witness ==
    /\ last.op = "Read" /\ last.at \in 0..3
    /\ last.err = "digests don't match"
    /\ Len(indexFile.data) > HeaderLen + DigestLen

\* the index file has an unsupported version or a wrong trailing digest
IsCorrupt(file) ==
    /\ file.exists
    /\ Len(file.data) >= DigestLen
    /\ \/ Slice(file.data, 4, 8) # <<0, 0, 0, 2>>
       \/ Slice(file.data, Len(file.data) - DigestLen, Len(file.data))
            # sha1Sum(Slice(file.data, 0, Len(file.data) - DigestLen))

\* C7: Read answers a missing index file with a fresh empty index (DIRC,
\* version 2, no entries) and no error, and an index file with an
\* unsupported version or a wrong trailing digest with an error and no index
C7_AbsentOrCorrupt ==
    last.op = "Read"
    => /\ ~indexFile.exists
          => /\ last.result = "ok" /\ last.err = ""
             /\ last.ret.Signature = sigDIRC /\ last.ret.Version = <<50>>
             /\ last.ret.EntryCount = 0 /\ last.ret.Entries = <<>>
       /\ IsCorrupt(indexFile)
          => last.result = "error" /\ last.err # "" /\ last.ret = NilIndex

\* Read met an index file with entries whose trailing digest is wrong
C7_Witness ==
    /\ last.op = "Read" /\ last.result = "error"
    /\ IsCorrupt(indexFile)
    /\ Slice(indexFile.data, 4, 8) = <<0, 0, 0, 2>>
    /\ Len(indexFile.data) > HeaderLen + DigestLen

\* nothing is staged: there is no index file, or it is that of an empty index
NothingStaged(file) == ~file.exists \/ file = File(Marshal(NewIndexService).data)

\* C8: a Commit with nothing staged returns the error of the tree synthesis,
\* stores no object and leaves the branch pointer as it was
C8_EmptyCommit ==
    [][(last'.op = "Commit" /\ NothingStaged(indexFile))
       => (/\ last'.result = "error"
           /\ last'.err = "failed to write a tree"
           /\ last'.stores = <<>>
           /\ objects' = objects
           /\ ref' = ref)]_vars

\* a Commit failed on the stored index of an empty Add
C8_Witness ==
    /\ last.op = "Commit" /\ last.err = "failed to write a tree"
    /\ indexFile.exists /\ NothingStaged(indexFile)
    /\ ~ref.exists

\* the k-th file of the batch cannot be read, stored or stat-ed
FileFails(files, plan, k) ==
    \/ (IF impl = "mgi" THEN TrimPrefix(files[k], <<46, 47>>)
        ELSE Trim(files[k], {46, 47})) \notin DOMAIN wt
    \/ plan.op \in {"read", "stat", "store"} /\ plan.at = k

\* C9: an Add of which a file cannot be read, stored or stat-ed returns an
\* error and leaves the index file exactly as it was
C9_BatchAborts ==
    [][(/\ last'.op = "Add"
        /\ last'.err # "error reading index file"
        /\ \E k \in 1..Len(last'.files) : FileFails(last'.files, last'.plan, k))
       => (last'.result = "error" /\ indexFile' = indexFile)]_vars

\* the second file of a batch failed after the first was stored, on an index
\* file that an earlier Add wrote
C9_Witness ==
    /\ last.op = "Add" /\ last.result = "error"
    /\ Len(last.files) = 2 /\ FileFails(last.files, last.plan, 2)
    /\ Len(last.stores) = 1 /\ last.stores[1].err = ""
    /\ indexFile.exists /\ Len(indexFile.data) > HeaderLen + DigestLen

\* the files of the object store whose name is the hex digest
FilesOf(objs, hash) == {q \in DOMAIN objs.files : q[1] \o q[2] = Hex(hash)}

\* C10: a store that the file system does not refuse succeeds and returns
\* the digest of the serialized content; the object store then holds exactly
\* one file for that digest, in the directory of its first two hex
\* characters and named by the other 38; storing content that is already
\* there adds no file; and a file never holds content of another digest
C10_ContentAddressing ==
    [][(last'.op = "ObjStore" /\ last'.stores[1].fault = "")
       => (/\ last'.result = "ok"
           /\ last'.hash = sha1Sum(Blob_Marshal(last'.files[1]))
           /\ FilesOf(objects', last'.hash) = {ObjectPath(Hex(last'.hash))}
           /\ Len(ObjectPath(Hex(last'.hash))[1]) = 2
           /\ Len(ObjectPath(Hex(last'.hash))[2]) = 2 * DigestLen - 2
           /\ ObjectPath(Hex(last'.hash))[1] \in objects'.dirs
           /\ last'.had => DOMAIN objects'.files = DOMAIN objects.files
           /\ \A q \in DOMAIN objects'.files :
                  zlibOk(objects'.files[q])
                  => Hex(sha1Sum(zlibRead(objects'.files[q]))) = q[1] \o q[2])]_vars

\* content that the store already held was stored again, beside another
\* object
C10_Witness ==
    /\ last.op = "ObjStore" /\ last.result = "ok" /\ last.had
    /\ Cardinality(DOMAIN objects.files) = 2
    /\ FilesOf(objects, last.hash) = {ObjectPath(Hex(last.hash))}

\* the orders a list of distinct files can be given in
Perms(files) ==
    {q \in [1..Len(files) -> {files[i] : i \in 1..Len(files)}] :
        \A i, j \in 1..Len(files) : q[i] = q[j] => i = j}

SortedOrEqualByPath(es) ==
    \A i \in 1..(Len(es) - 1) : ~StrLess(es[i + 1].Path, es[i].Path)

\* the index file after MGIService.Add(first) and then, by the services of a
\* new command, MGIService.Add(second)
AddInTwoBatches(first, second) ==
    LET then(r) == MGIService_Add(impl, NewIndexService, r.file, r.objects, wt,
                                  second, NoFault).file
    IN  then(MGIService_Add(impl, index, indexFile, objects, wt, first, NoFault))

\* C11: the index that a successful Add of distinct files persists is the
\* serialization of its entries in ascending path order, and it is the same
\* file whatever the order of the files in the batch and whether they are
\* staged by one Add or by two
C11_OrderIndependent ==
    [][(/\ last'.op = "Add" /\ last'.result = "ok" /\ last'.plan = NoFault
        /\ Len(last'.files) >= 2
        /\ \A i, j \in 1..Len(last'.files) : last'.files[i] = last'.files[j] => i = j)
       => (/\ SortedOrEqualByPath(index'.Entries)
           /\ indexFile'.data = Marshal(index').data
           /\ \A q \in Perms(last'.files) :
                  /\ MGIService_Add(impl, index, indexFile, objects, wt, q, NoFault).file
                         = indexFile'
                  /\ \A k \in 1..(Len(q) - 1) :
                         AddInTwoBatches(SubSeq(q, 1, k), SubSeq(q, k + 1, Len(q)))
                             = indexFile')]_vars

\* C12: a Commit whose commit object was stored and whose branch pointer
\* could not be opened or written returns an error, and a Commit that
\* returns no error leaves the branch pointer holding the hex digest of the
\* new commit and a newline
C12_RefFailureReported ==
    [][last'.op = "Commit"
       => (/\ (last'.plan.op = "ref" /\ last'.hash # <<>>) => last'.result = "error"
           /\ last'.result = "ok"
              => (ref'.exists /\ ref'.data = Hex(last'.hash) \o <<10>>))]_vars

\* the file an object of content data is stored in
BlobPath(data) == ObjectPath(Hex(HashObject(Blob_Marshal(data))))

\* C13: reading an object by its digest returns the payload that was stored,
\* without the "<type> <length>\0" header, also when the payload holds a NUL;
\* reading a digest that no object was stored under fails with an error
C13_ReadRoundTrip ==
    last.op = "ObjRead"
    => (/\ (/\ HasObjectFile(objects, BlobPath(last.files[1]))
            /\ zlibOk(objects.files[BlobPath(last.files[1])]))
           => (last.result = "ok" /\ last.hash = last.files[1])
        /\ ~HasObjectFile(objects, BlobPath(last.files[1])) => last.result = "error")

\* C14: HashObject returns the digest that StoreObject returns for the same
\* object, and the object store is as it was: no file and no fan-out
\* directory is created
C14_HashOnly ==
    [][last'.op = "ObjHash"
       => (/\ StoreObject(objects, Blob_Marshal(last'.files[1]), "").err = ""
           /\ last'.hash = StoreObject(objects, Blob_Marshal(last'.files[1]), "").hash
           /\ objects' = objects
           /\ ObjectPath(Hex(last'.hash)) = BlobPath(last'.files[1]))]_vars

\* an object that the store does not hold was hashed, and the store, which
\* holds another object, still does not hold it
C14_Witness ==
    /\ last.op = "ObjHash"
    /\ DOMAIN objects.files # {}
    /\ ~HasObjectFile(objects, ObjectPath(Hex(last.hash)))

(***************************************************************************)
(* A repository whose working tree holds README and src/main.txt: the two  *)
(* files are staged and committed.                                         *)
(***************************************************************************)
\* "README"
pathReadme == <<82, 69, 65, 68, 77, 69>>

\* "src/main.txt"
pathSrcMain == <<115, 114, 99, 47, 109, 97, 105, 110, 46, 116, 120, 116>>

\* "hello"
TextHello == <<104, 101, 108, 108, 111>>

\* "init": the commit message
MessageInit == <<105, 110, 105, 116>>

ScenarioBatches ==
    { <<pathReadme, pathSrcMain>>, <<pathSrcMain, pathReadme>>, <<pathReadme>>,
      <<pathSrcMain>> }

InitScenario ==
    /\ impl \in Impls
    /\ wt = [p \in {pathReadme, pathSrcMain} |->
                [exists |-> TRUE, data |-> IF p = pathReadme THEN TextHello ELSE TextX,
                 exec |-> FALSE, mtime |-> 3]]
    /\ index = NewIndexService
    /\ indexFile = NoFile
    /\ objects = NoObjects
    /\ ref = NoFile
    /\ clock = 0
    /\ steps = 0
    /\ last = NoLast

NextScenario ==
    \/ NewProcess
    \/ \E files \in ScenarioBatches : \E plan \in AddFaults(files) : DoAdd(files, plan)
    \/ \E now \in clock..MaxClock : \E plan \in CommitFaults :
          DoCommit(MessageInit, now, plan)

SpecScenario == InitScenario /\ [][NextScenario]_vars

\* the object files that hold a readable object of the type named
ObjectsOfType(objs, kind) ==
    {q \in DOMAIN objs.files :
        /\ zlibOk(objs.files[q])
        /\ HasPrefix(zlibRead(objs.files[q]), ObjectTypeText(kind) \o <<32>>)}

\* README and src/main.txt are staged, their blobs, whole, are all that the
\* object store holds, and nothing was committed yet
BothStaged ==
    /\ ~ref.exists
    /\ indexFile.exists
    /\ [i \in 1..Len(ReadIndex(impl, NewIndexService, indexFile).ret.Entries) |->
            ReadIndex(impl, NewIndexService, indexFile).ret.Entries[i].Path]
       = <<pathReadme, pathSrcMain>>
    /\ DOMAIN objects.files = {BlobPath(TextHello), BlobPath(TextX)}
    /\ ObjectsOfType(objects, "blob") = DOMAIN objects.files

\* C15 as the specification counts: after README and src/main.txt are staged
\* in an empty repository and committed once, the object store holds exactly
\* 4 objects and the branch ref holds the commit's digest
C15_FourObjects ==
    [][(BothStaged /\ last'.op = "Commit" /\ last'.plan = NoFault)
       => (/\ last'.result = "ok"
           /\ Cardinality(DOMAIN objects'.files) = 4
           /\ ref'.exists /\ ref'.data = Hex(last'.hash) \o <<10>>)]_vars

\* C15: after README and src/main.txt are staged in an empty repository and
\* committed once, with no failure of the file system, the object store holds
\* exactly 5 objects, which are 2 blobs, 2 trees (the root and src/) and 1
\* commit, and the branch ref holds the commit's digest and a newline
C15_FiveObjects ==
    [][(BothStaged /\ last'.op = "Commit" /\ last'.plan = NoFault)
       => (/\ last'.result = "ok"
           /\ Cardinality(DOMAIN objects'.files) = 5
           /\ ObjectsOfType(objects', "blob") = {BlobPath(TextHello), BlobPath(TextX)}
           /\ Cardinality(ObjectsOfType(objects', "tree")) = 2
           /\ {last'.stores[i].for :
                   i \in {k \in 1..Len(last'.stores) : last'.stores[k].kind = "tree"}}
              = {<<>>, <<115, 114, 99, 47>>}
           /\ ObjectsOfType(objects', "commit") = {ObjectPath(Hex(last'.hash))}
           /\ ref'.exists /\ ref'.data = Hex(last'.hash) \o <<10>>)]_vars

\* the two files were staged and committed: the ref is there
C15_Witness ==
    /\ last.op = "Commit" /\ last.result = "ok" /\ last.plan = NoFault
    /\ last.parent = <<>>
    /\ Cardinality(ObjectsOfType(objects, "blob")) = 2
    /\ ref.exists /\ ref.data = Hex(last.hash) \o <<10>>

(***************************************************************************)
(* Marshal and Read on entries of every path length: the index in memory   *)
(* holds one entry of the length drawn, alone or before the entry "b", and *)
(* is stored and read.                                                     *)
(***************************************************************************)
\* "aa...a", pathLen bytes long
PathOfLen(pathLen) == [i \in 1..pathLen |-> 97]

\* "b"
pathB == <<98>>

\* the entry of a file that holds "hi"
EntryOf(path) ==
    NewEntry(path, HashObject(Blob_Marshal(TextHi)),
             Stat([data |-> TextHi, exec |-> FALSE, mtime |-> 3], path))

InitEntry ==
    /\ impl \in Impls
    /\ wt = [p \in WtPaths |-> [exists |-> TRUE, data |-> TextHi, exec |-> p = pathABD,
                                mtime |-> 3]]
    /\ \E pathLen \in 0..MaxPathLen : \E n \in 1..2 :
           index = [NewIndexService EXCEPT
                       !.Entries = SubSeq(<<EntryOf(PathOfLen(pathLen)), EntryOf(pathB)>>,
                                          1, n),
                       !.EntryCount = n]
    /\ indexFile = NoFile
    /\ objects = NoObjects
    /\ ref = NoFile
    /\ clock = 0
    /\ steps = 0
    /\ last = NoLast

NextEntry ==
    \/ IxStore
    \/ IxRead

SpecEntry == InitEntry /\ [][NextEntry]_vars

\* ceil((62 + L + 1) / 8) * 8
CeilEntryLen(pathLen) == ((FixedLen + pathLen + 1 + 7) \div 8) * 8

\* the offset of the k-th entry in a file of entries es
RECURSIVE EntryOffset(_, _)
EntryOffset(es, k) ==
    IF k <= 1 THEN HeaderLen
    ELSE EntryOffset(es, k - 1) + CeilEntryLen(Len(es[k - 1].Path))

\* C16: Marshal serializes an entry of path length L to exactly
\* ceil((62 + L + 1) / 8) * 8 bytes: the 62 fixed bytes, the path, its NUL,
\* and NULs up to the next multiple of 8
C16_PaddingExact ==
    (last.op = "Store" /\ last.result = "ok")
    => (/\ Len(indexFile.data)
           = EntryOffset(index.Entries, Len(index.Entries) + 1) + DigestLen
        /\ \A k \in 1..Len(index.Entries) :
               /\ Len(MarshalEntry(index.Entries[k]))
                  = CeilEntryLen(Len(index.Entries[k].Path))
               /\ Slice(indexFile.data, EntryOffset(index.Entries, k),
                        EntryOffset(index.Entries, k + 1))
                  = MarshalEntry(index.Entries[k])
               /\ Slice(indexFile.data, EntryOffset(index.Entries, k) + FixedLen,
                        EntryOffset(index.Entries, k + 1))
                  = index.Entries[k].Path
                    \o Zeros(CeilEntryLen(Len(index.Entries[k].Path)) - FixedLen
                             - Len(index.Entries[k].Path)))

\* an entry whose 62 bytes, path of 1 byte and NUL fill 64 bytes was stored
\* before another entry
C16_Witness ==
    /\ last.op = "Store" /\ last.result = "ok"
    /\ Len(index.Entries) = 2
    /\ Len(index.Entries[1].Path) = 1
    /\ Len(indexFile.data) = HeaderLen + 64 + 64 + DigestLen

\* C17: Read skips after an entry's path and NUL the padding that Marshal
\* wrote, for every path length, so that the entry after it is decoded from
\* its first byte: the entries of a stored index are read back as they were
C17_ReadSkipsPadding ==
    [][(last.op = "Store" /\ last.result = "ok" /\ last'.op = "Read")
       => (/\ last'.result = "ok"
           /\ last'.ret.Entries = last.ret.Entries
           /\ impl = "mgi"
              => \A k \in 1..(Len(last.ret.Entries) - 1) :
                     ReadPadding(Len(last.ret.Entries[k].Path))
                     = MarshalEntryLen(Len(last.ret.Entries[k].Path))
                       - (FixedLen + Len(last.ret.Entries[k].Path) + 1))]_vars

\* C18: Read of an index file that is a strict prefix of a stored index, the
\* empty file and the files shorter than the header or the digest included,
\* returns an error and no index: it neither crashes nor returns entries
C18_TruncatedIsError ==
    (last.op = "Read" /\ last.cut >= 0)
    => (last.result = "error" /\ last.err # "" /\ last.ret = NilIndex)

\* the entries that an index file holds, decoded entry by entry at Marshal's
\* lengths
Persisted(file) == fs_IndexService_Read(NewIndexService, file).ret.Entries

\* C19: a successful MGIService.Add on a fresh service keeps in the persisted
\* index every entry that was persisted before for a path outside the batch,
\* and persists for every file of the batch an entry with the digest of what
\* the file holds now
C19_Cumulative ==
    [][(index = NewIndexService /\ last'.op = "Add" /\ last'.result = "ok")
       => (/\ \A i \in 1..Len(Persisted(indexFile)) :
                  \E j \in 1..Len(Persisted(indexFile')) :
                      /\ Persisted(indexFile')[j].Path = Persisted(indexFile)[i].Path
                      /\ (\A k \in 1..Len(last'.files) :
                              last'.files[k] # Persisted(indexFile)[i].Path)
                         => Persisted(indexFile')[j].Hash = Persisted(indexFile)[i].Hash
           /\ \A k \in 1..Len(last'.files) :
                  \E j \in 1..Len(Persisted(indexFile')) :
                      /\ Persisted(indexFile')[j].Path = last'.files[k]
                      /\ Persisted(indexFile')[j].Hash
                         = HashObject(Blob_Marshal(wt[last'.files[k]].data)))]_vars

\* C20: whatever IndexService.Read calls (of an absent, a valid or a rejected
\* file) and Add calls were made, the service's EntryCount is the number of
\* its entries, which is the count that Marshal writes in the header
C20_EntryCountMatches == index.EntryCount = Len(index.Entries)

(***************************************************************************)
(* A working tree of files whose names begin or end with a dot, staged     *)
(* under the paths as the command line gives them.                         *)
(***************************************************************************)
\* ".gitignore" and "gitignore"
pathDotGitignore == <<46, 103, 105, 116, 105, 103, 110, 111, 114, 101>>

pathGitignore == <<103, 105, 116, 105, 103, 110, 111, 114, 101>>

\* "xy" and "xy."
pathXY == <<120, 121>>

pathXYDot == <<120, 121, 46>>

\* "./"
DotSlash == <<46, 47>>

\* the files given to MGIService.Add, alone or in pairs
ArgPaths ==
    {pathDotGitignore, DotSlash \o pathDotGitignore, pathXY, DotSlash \o pathXY,
     pathXYDot, DotSlash \o pathXYDot}

ArgBatches ==
    {<<f>> : f \in ArgPaths}
    \cup {<<pathXY, f>> : f \in {DotSlash \o pathDotGitignore, pathXYDot}}

InitPaths ==
    /\ impl \in Impls
    /\ wt = [p \in {pathDotGitignore, pathGitignore, pathXY, pathXYDot} |->
                [exists |-> TRUE,
                 data |-> IF p \in {pathDotGitignore, pathXY} THEN TextHi ELSE TextX,
                 exec |-> FALSE, mtime |-> 3]]
    /\ index = NewIndexService
    /\ indexFile = NoFile
    /\ objects = NoObjects
    /\ ref = NoFile
    /\ clock = 0
    /\ steps = 0
    /\ last = NoLast

NextPaths ==
    \/ NewProcess
    \/ \E files \in ArgBatches : \E plan \in AddFaults(files) : DoAdd(files, plan)

SpecPaths == InitPaths /\ [][NextPaths]_vars

\* C21: an Add that succeeds has staged every file it was given under the
\* path given minus one leading "./", no other byte dropped, with the digest
\* of what the file of that path holds
C21_PathAsGiven ==
    [][(last'.op = "Add" /\ last'.result = "ok")
       => \A k \in 1..Len(last'.files) :
              \E j \in 1..Len(index'.Entries) :
                  /\ index'.Entries[j].Path = TrimPrefix(last'.files[k], DotSlash)
                  /\ index'.Entries[j].Hash
                     = HashObject(Blob_Marshal(wt[TrimPrefix(last'.files[k], DotSlash)].data))]_vars
=============================================================================
